---- MODULE Spec2Model ----
(***************************************************************************)
(* Dataset generation pipeline of LLM LoreSmith                            *)
(* (src/src/dataset_generation/dataset_pipeline.py).                       *)
(*                                                                         *)
(* The state is the on-disk dataset directory tree (base_dir), the wall    *)
(* clock, and the result handed back by the operation that ran last.  The  *)
(* document store is an external collaborator the pipeline only reads; it  *)
(* is a fixed catalogue here.                                              *)
(*                                                                         *)
(* Text is a sequence of tokens: a sentence (a record giving its length in *)
(* characters and the facts the regular expressions of the code look at)   *)
(* or the paragraph break "\n\n" (the token Break).  Adjacent sentences   *)
(* are separated by one blank.                                             *)
(***************************************************************************)
EXTENDS Integers, Sequences, FiniteSets, TLC

(***************************************************************************)
(* Bounds of the model.                                                    *)
(***************************************************************************)
MaxTime == 1
MaxCalls == 2
MaxDocs == 3
MaxSentences == 2
MaxParagraphLen == 205
MaxSamples == 101
MaxChars == 2001
MaxTokens == 3

(***************************************************************************)
(* Program constants.                                                      *)
(***************************************************************************)
min_sentence_length == 10
max_sentence_length == 1000
min_dataset_size == 1000
min_samples == 10
optimal_samples == 100
MinParagraphLen == 100
KnowledgeParagraphLen == 200
MinQuestionWords == 3
AnswerPrefixLen == 200
EllipsisLen == 3
SummaryNoteLen == 127
AnswerNoteLen == 134
SummaryPromptLen == 37
QuestionFrameLen == 28
DefaultFilenameLen == 12

None == "None"

\* the paragraph break "\n\n", a token of its own
Break ==
    [len |-> 2, shape |-> "break", cue |-> FALSE, words |-> 0, subject |-> 0,
     cut |-> FALSE, starter |-> FALSE]

IsBreak(t) == t.shape = "break"

RECURSIVE SumLen(_)
SumLen(ss) == IF ss = <<>> THEN 0 ELSE Head(ss).len + SumLen(Tail(ss))

\* len() of sentences joined by single blanks
JoinedLen(ss) == IF ss = <<>> THEN 0 ELSE SumLen(ss) + (Len(ss) - 1)

(***************************************************************************)
(* The document store (external): what get_document_path and               *)
(* get_document_metadata answer for each id, and the file's content.       *)
(* Sentence shapes name the noise pattern a sentence matches, if any.      *)
(* cut: the sentence ends in the "..." that truncation appends; starter:   *)
(* its first word is one the sentence tokenizer accepts as the start of a  *)
(* sentence after an ellipsis (capitalised, known in lower case).          *)
(***************************************************************************)
Prose(n, cue, words, subject) ==
    [len |-> n, shape |-> "prose", cue |-> cue, words |-> words, subject |-> subject,
     cut |-> FALSE, starter |-> TRUE]

\* the ids callers pass, in the order sorted() gives them
DocCatalog ==
    <<"blank", "chapters", "corrupt", "image", "info", "missing", "plain", "short">>

DocIds == {DocCatalog[i] : i \in 1..Len(DocCatalog)}

DocumentStore ==
    [d \in DocIds |->
        CASE d = "info" ->
                [path |-> "info/document.md", ext |-> ".md", filename_len |-> 7,
                 parses |-> TRUE,
                 raw |-> <<Prose(120, TRUE, 18, 9), Break, Prose(100, FALSE, 15, 7)>>]
          [] d = "plain" ->
                [path |-> "plain/document.txt", ext |-> ".txt", filename_len |-> 9,
                 parses |-> TRUE,
                 raw |-> <<Prose(150, FALSE, 22, 8)>>]
          [] d = "short" ->
                [path |-> "short/document.txt", ext |-> ".txt", filename_len |-> 9,
                 parses |-> TRUE,
                 raw |-> <<Prose(60, TRUE, 9, 6), Break,
                           [Prose(12, FALSE, 4, 4) EXCEPT !.shape = "page"]>>]
          [] d = "chapters" ->     \* three paragraphs, each long enough for a sample
                [path |-> "chapters/document.txt", ext |-> ".txt", filename_len |-> 12,
                 parses |-> TRUE,
                 raw |-> <<Prose(110, FALSE, 16, 7), Break, Prose(110, FALSE, 16, 7),
                           Break, Prose(110, FALSE, 16, 7)>>]
          [] d = "blank" ->        \* a file of white space only
                [path |-> "blank/document.txt", ext |-> ".txt", filename_len |-> 9,
                 parses |-> TRUE, raw |-> <<Break>>]
          [] d = "corrupt" ->      \* a file PyPDF2 raises on
                [path |-> "corrupt/document.pdf", ext |-> ".pdf", filename_len |-> 10,
                 parses |-> FALSE, raw |-> <<Prose(150, TRUE, 22, 8)>>]
          [] d = "image" ->        \* a format no branch handles
                [path |-> "image/document.png", ext |-> ".png", filename_len |-> 9,
                 parses |-> TRUE, raw |-> <<Prose(150, TRUE, 22, 8)>>]
          [] OTHER ->              \* an id the store does not hold
                [path |-> None, ext |-> None, filename_len |-> 0,
                 parses |-> TRUE, raw |-> <<>>]]

get_document_path(doc_id) == DocumentStore[doc_id].path

\* found = FALSE stands for Python's None
get_document_metadata(doc_id) ==
    [found |-> DocumentStore[doc_id].path # None,
     filename_len |-> DocumentStore[doc_id].filename_len]

SupportedExts == {".pdf", ".docx", ".txt", ".md", ".html"}

\* (success, text): not found, unsupported format, an exception of the
\* parser and empty content all fail
extract_from_document(doc_id) ==
    LET doc_path == get_document_path(doc_id)
        text == DocumentStore[doc_id].raw
    IN  IF doc_path = None THEN [success |-> FALSE, text |-> <<>>]
        ELSE IF DocumentStore[doc_id].ext \notin SupportedExts
             THEN [success |-> FALSE, text |-> <<>>]
        ELSE IF ~DocumentStore[doc_id].parses
             THEN [success |-> FALSE, text |-> <<>>]
        ELSE IF SelectSeq(text, LAMBDA t : ~IsBreak(t)) = <<>>
             THEN [success |-> FALSE, text |-> <<>>]
        ELSE [success |-> TRUE, text |-> text]

(***************************************************************************)
(* ContentFilter                                                           *)
(***************************************************************************)
\* re.sub(r'\s+', ' ', text): every run of whitespace, newlines included,
\* becomes one blank, so no paragraph break survives; the second
\* substitution (r'\n+') then finds nothing to replace.
normalize_whitespace(text) == SelectSeq(text, LAMBDA t : ~IsBreak(t))

\* two sentences the tokenizer takes for one
Merge(a, b) ==
    [len |-> a.len + 1 + b.len,
     shape |-> IF a.shape \in {"figure", "table", "copyright", "rights", "confidential"}
               THEN a.shape ELSE "prose",
     cue |-> a.cue \/ b.cue, words |-> a.words + b.words, subject |-> a.subject,
     cut |-> b.cut, starter |-> a.starter]

\* The Punkt tokenizer does not end a sentence at "..." unless the next word
\* is one it knows as a sentence starter: a sentence that ends in the
\* ellipsis of a truncation runs on into the sentence after it.
RECURSIVE Retokenize(_)
Retokenize(sentences) ==
    IF Len(sentences) < 2 THEN sentences
    ELSE IF sentences[1].cut /\ ~sentences[2].starter
         THEN Retokenize(<<Merge(sentences[1], sentences[2])>> \o Tail(Tail(sentences)))
         ELSE <<sentences[1]>> \o Retokenize(Tail(sentences))

\* sent_tokenize of a text: its sentences, each one paragraph-local
sent_tokenize(text) == Retokenize(SelectSeq(text, LAMBDA t : ~IsBreak(t)))

\* shapes whose pattern is anchored at the end of the sentence ($)
EndAnchored == {"digits", "page", "page_marker", "chapter", "section"}

\* shapes whose pattern only looks at the start of the sentence
StartAnchored == {"figure", "table", "copyright", "rights", "confidential"}

\* a noise test that knows the whole-sentence patterns only
is_noise_whole_sentence_only(sentence) == sentence.shape \in EndAnchored

is_noise(sentence) == sentence.shape \in (EndAnchored \cup StartAnchored)

\* sentence[:max_sentence_length] + "..."
Truncate(sentence) ==
    [sentence EXCEPT !.len = max_sentence_length + EllipsisLen,
                     !.shape = IF @ \in EndAnchored THEN "prose" ELSE @,
                     !.cut = TRUE]

\* a loop that tests for noise before it truncates
RECURSIVE FilterSentences_noise_first(_)
FilterSentences_noise_first(sentences) ==
    IF sentences = <<>> THEN <<>>
    ELSE LET s == Head(sentences)
             rest == FilterSentences_noise_first(Tail(sentences))
         IN  IF s.len < min_sentence_length THEN rest
             ELSE IF is_noise(s) THEN rest
             ELSE <<IF s.len > max_sentence_length THEN Truncate(s) ELSE s>> \o rest

RECURSIVE FilterSentences(_)
FilterSentences(sentences) ==
    IF sentences = <<>> THEN <<>>
    ELSE LET s == Head(sentences)
             rest == FilterSentences(Tail(sentences))
             t == IF s.len > max_sentence_length THEN Truncate(s) ELSE s
         IN  IF s.len < min_sentence_length THEN rest
             ELSE IF is_noise(t) THEN rest
             ELSE <<t>> \o rest

filter_content(text) == FilterSentences(sent_tokenize(normalize_whitespace(text)))

(***************************************************************************)
(* DatasetStructurer: sample synthesis                                     *)
(***************************************************************************)
\* re.split(r'\n\s*\n', text): the paragraphs, split at the breaks
RECURSIVE SplitParagraphs(_, _)
SplitParagraphs(text, cur) ==
    IF text = <<>> THEN <<cur>>
    ELSE IF IsBreak(Head(text)) THEN <<cur>> \o SplitParagraphs(Tail(text), <<>>)
    ELSE SplitParagraphs(Tail(text), Append(cur, Head(text)))

is_informative(paragraph) == \E i \in 1..Len(paragraph) : paragraph[i].cue

\* len(metadata.get('filename', 'the document')), metadata being {} when the
\* store has none
filename_len(metadata) ==
    IF metadata.found THEN metadata.filename_len ELSE DefaultFilenameLen

generate_summary(paragraph) ==
    LET sentences == sent_tokenize(paragraph)
    IN  sentences[1].len + SummaryNoteLen

\* some = FALSE (Python's None) when the first sentence has fewer than 3 words
generate_question(paragraph) ==
    LET sentences == sent_tokenize(paragraph)
    IN  IF sentences = <<>> THEN [some |-> FALSE, chars |-> 0]
        ELSE IF sentences[1].words < MinQuestionWords THEN [some |-> FALSE, chars |-> 0]
        ELSE [some |-> TRUE, chars |-> QuestionFrameLen + sentences[1].subject]

generate_answer(paragraph) ==
    LET n == JoinedLen(paragraph)
    IN  (IF n < AnswerPrefixLen THEN n ELSE AnswerPrefixLen) + AnswerNoteLen

SummarySample(paragraph, metadata) ==
    [kind |-> "summary", paragraph |-> paragraph, source |-> filename_len(metadata),
     input |-> SummaryPromptLen + filename_len(metadata) + JoinedLen(paragraph),
     output |-> generate_summary(paragraph)]

KnowledgeSample(paragraph, metadata) ==
    [kind |-> "knowledge", paragraph |-> paragraph, source |-> filename_len(metadata),
     input |-> generate_question(paragraph).chars,
     output |-> generate_answer(paragraph)]

\* the knowledge sample already from 200 characters on
ParagraphSamples_from_200(paragraph, metadata) ==
    IF paragraph = <<>> \/ JoinedLen(paragraph) < MinParagraphLen THEN <<>>
    ELSE <<SummarySample(paragraph, metadata)>> \o
         (IF /\ JoinedLen(paragraph) >= KnowledgeParagraphLen
             /\ is_informative(paragraph)
             /\ generate_question(paragraph).some
          THEN <<KnowledgeSample(paragraph, metadata)>>
          ELSE <<>>)

ParagraphSamples(paragraph, metadata) ==
    IF paragraph = <<>> \/ JoinedLen(paragraph) < MinParagraphLen THEN <<>>
    ELSE <<SummarySample(paragraph, metadata)>> \o
         (IF /\ JoinedLen(paragraph) > KnowledgeParagraphLen
             /\ is_informative(paragraph)
             /\ generate_question(paragraph).some
          THEN <<KnowledgeSample(paragraph, metadata)>>
          ELSE <<>>)

RECURSIVE SamplesOfParagraphs(_, _)
SamplesOfParagraphs(paragraphs, metadata) ==
    IF paragraphs = <<>> THEN <<>>
    ELSE ParagraphSamples(Head(paragraphs), metadata)
         \o SamplesOfParagraphs(Tail(paragraphs), metadata)

create_samples_from_text(text, metadata) ==
    SamplesOfParagraphs(SplitParagraphs(text, <<>>), metadata)

(***************************************************************************)
(* DatasetAnalyzer.  Scores are kept exact in twentieths of a point        *)
(* (score20 = 20 * sufficiency_score): total_chars / 1000 * 50 is          *)
(* total_chars / 20 and sample_count / 100 * 50 is sample_count / 2.       *)
(***************************************************************************)
\* max() where the code has min()
Min_larger(a, b) == IF a < b THEN b ELSE a

\* min(cap, score) that wraps around past the cap instead of staying there
Min_wrapping(a, b) == b % (a + 1)

Min(a, b) == IF a < b THEN a ELSE b

\* a total that counts the inputs only
RECURSIVE InputChars(_)
InputChars(samples) ==
    IF samples = <<>> THEN 0 ELSE Head(samples).input + InputChars(Tail(samples))

TotalChars_inputs_only(samples) == InputChars(samples)

RECURSIVE TotalChars(_)
TotalChars(samples) ==
    IF samples = <<>> THEN 0
    ELSE Head(samples).input + Head(samples).output + TotalChars(Tail(samples))

\* a message selection that looks at the character count first
select_message_chars_first(is_sufficient, score20, sample_count, total_chars) ==
    IF is_sufficient
    THEN IF score20 >= 80 * 20
         THEN "Dataset is sufficient and of good quality"
         ELSE "Dataset is minimally sufficient but could be improved"
    ELSE IF total_chars < min_dataset_size
         THEN "Insufficient content (minimum 1000 characters required)"
         ELSE "Insufficient samples (minimum 10 required)"

\* the message of analyze_dataset
select_message(is_sufficient, score20, sample_count, total_chars) ==
    IF is_sufficient
    THEN IF score20 >= 80 * 20
         THEN "Dataset is sufficient and of good quality"
         ELSE "Dataset is minimally sufficient but could be improved"
    ELSE IF sample_count < min_samples
         THEN "Insufficient samples (minimum 10 required)"
         ELSE "Insufficient content (minimum 1000 characters required)"

analyze_dataset(samples) ==
    IF samples = <<>>
    THEN [is_sufficient |-> FALSE, message |-> "Dataset is empty",
          stats |-> [sample_count |-> 0, total_chars |-> 0,
                     avg_sample_length |-> [num |-> 0, den |-> 1], score20 |-> 0]]
    ELSE LET sample_count == Len(samples)
             total_chars == TotalChars(samples)
             size_score20 == Min(100 * 20, (total_chars * 50 * 20) \div min_dataset_size)
             count_score20 == Min(50 * 20, (sample_count * 50 * 20) \div optimal_samples)
             score20 == size_score20 + count_score20
             is_sufficient == total_chars >= min_dataset_size /\ sample_count >= min_samples
             message == select_message(is_sufficient, score20, sample_count, total_chars)
         IN  [is_sufficient |-> is_sufficient, message |-> message,
              stats |-> [sample_count |-> sample_count, total_chars |-> total_chars,
                         avg_sample_length |-> [num |-> total_chars, den |-> sample_count],
                         score20 |-> score20]]

(***************************************************************************)
(* DatasetStructurer: identity of a dataset                                *)
(***************************************************************************)
Rank(d) == CHOOSE i \in 1..Len(DocCatalog) : DocCatalog[i] = d

RECURSIVE Insert(_, _)
Insert(d, sorted) ==
    IF sorted = <<>> THEN <<d>>
    ELSE IF Rank(d) <= Rank(Head(sorted)) THEN <<d>> \o sorted
    ELSE <<Head(sorted)>> \o Insert(d, Tail(sorted))

RECURSIVE sorted_ids(_)
sorted_ids(doc_ids) ==
    IF doc_ids = <<>> THEN <<>> ELSE Insert(Head(doc_ids), sorted_ids(Tail(doc_ids)))

\* f"ds_{timestamp}_{hash_value}": the digest of "_".join(sorted_ids) stands
\* for its input (no two inputs of the model share a digest)
generate_id(doc_ids, t) == [time |-> t, digest |-> sorted_ids(doc_ids)]

\* a dataset_name argument: given = FALSE is None
NoName == [given |-> FALSE, text |-> ""]
Name(text) == [given |-> TRUE, text |-> text]

\* dataset_name or f"dataset_{self._generate_id(doc_ids)}"
DatasetIdOf(dataset_name, doc_ids, t) ==
    IF dataset_name.given /\ dataset_name.text # ""
    THEN [text |-> dataset_name.text, time |-> 0, digest |-> <<>>]
    ELSE [text |-> "dataset_ds", time |-> generate_id(doc_ids, t).time,
          digest |-> generate_id(doc_ids, t).digest]

NoId == [text |-> "", time |-> 0, digest |-> <<>>]

\* the id "", the empty string
BaseDirId == [text |-> "", time |-> 0, digest |-> <<>>]

(***************************************************************************)
(* The dataset directory tree: the function fs maps each existing          *)
(* directory of base_dir to its three files.  A file records the call that *)
(* wrote it (by) next to its content.                                      *)
(***************************************************************************)
NoMetadata ==
    [dataset_id |-> NoId, document_ids |-> <<>>, sample_count |-> 0,
     is_sufficient |-> FALSE, score20 |-> 0]

NoFiles ==
    [dataset |-> [present |-> FALSE, by |-> 0, data |-> <<>>],
     analysis |-> [present |-> FALSE, by |-> 0, data |-> analyze_dataset(<<>>)],
     metadata |-> [present |-> FALSE, by |-> 0, data |-> NoMetadata]]

isdir(tree, id) == id \in DOMAIN tree

isfile(tree, id, slot) == isdir(tree, id) /\ tree[id][slot].present

\* os.makedirs(dataset_dir, exist_ok=True)
makedirs(tree, id) ==
    IF isdir(tree, id) THEN tree
    ELSE [d \in DOMAIN tree \cup {id} |-> IF d = id THEN NoFiles ELSE tree[d]]

\* with open(path, 'w') as f: json.dump(data, f)   (the directory exists)
write_file(tree, id, slot, call, data) ==
    [tree EXCEPT ![id][slot] = [present |-> TRUE, by |-> call, data |-> data]]

\* a delete that unlinks dataset.json only
rmtree_samples_only(tree, id) ==
    [tree EXCEPT ![id].dataset = [present |-> FALSE, by |-> 0, data |-> <<>>]]

\* shutil.rmtree(dataset_dir)
rmtree(tree, id) == [d \in DOMAIN tree \ {id} |-> tree[d]]

(***************************************************************************)
(* DatasetStructurer: create / get / list / delete                         *)
(***************************************************************************)
\* a pass of the loop that does not look at the success flag
DocumentSamples_unchecked(doc_id) ==
    create_samples_from_text(filter_content(DocumentStore[doc_id].raw),
                             get_document_metadata(doc_id))

\* a loop that hands the extracted text to the synthesizer unfiltered
DocumentSamples_unfiltered(doc_id) ==
    LET ex == extract_from_document(doc_id)
    IN  IF ~ex.success \/ ex.text = <<>> THEN <<>>
        ELSE create_samples_from_text(ex.text, get_document_metadata(doc_id))

\* one pass of the loop over doc_ids: a document that fails to extract
\* contributes nothing (continue)
DocumentSamples(doc_id) ==
    LET ex == extract_from_document(doc_id)
    IN  IF ~ex.success \/ ex.text = <<>> THEN <<>>
        ELSE create_samples_from_text(filter_content(ex.text),
                                      get_document_metadata(doc_id))

\* the store does not change: what each document contributes, computed once
SamplesByDocument == [d \in DocIds |-> DocumentSamples(d)]

RECURSIVE CollectSamples(_)
CollectSamples(doc_ids) ==
    IF doc_ids = <<>> THEN <<>>
    ELSE SamplesByDocument[Head(doc_ids)] \o CollectSamples(Tail(doc_ids))

\* a create_dataset that lost its first check
no_documents_unchecked(doc_ids) == FALSE

\* if not doc_ids
no_documents(doc_ids) == doc_ids = <<>>

\* a create_dataset that writes whatever it collected
no_samples_unchecked(samples) == FALSE

\* if not samples
no_samples(samples) == samples = <<>>

\* a metadata dictionary that counts the documents instead of the samples
dataset_metadata_counting_documents(dataset_id, doc_ids, samples, analysis) ==
    [dataset_id |-> dataset_id, document_ids |-> doc_ids,
     sample_count |-> Len(doc_ids),
     is_sufficient |-> analysis.is_sufficient,
     score20 |-> analysis.stats.score20]

\* the metadata dictionary written to metadata.json
dataset_metadata(dataset_id, doc_ids, samples, analysis) ==
    [dataset_id |-> dataset_id, document_ids |-> doc_ids,
     sample_count |-> Len(samples),
     is_sufficient |-> analysis.is_sufficient,
     score20 |-> analysis.stats.score20]

\* One open(path, 'w') + json.dump of create_dataset, the k-th of the three.
\* fault = k: this open raises OSError (as it does when the directory is
\* gone); the file is left as it was and nothing after it runs.
try_write(st, k, id, slot, call, data, fault) ==
    IF st.raised \/ fault = k \/ ~isdir(st.tree, id)
    THEN [tree |-> st.tree, raised |-> TRUE]
    ELSE [tree |-> write_file(st.tree, id, slot, call, data), raised |-> FALSE]

\* The three writes, in the order of the code.
WriteArtifacts(tree, id, call, doc_ids, samples, analysis, fault) ==
    try_write(
        try_write(
            try_write([tree |-> tree, raised |-> FALSE],
                      1, id, "dataset", call, samples, fault),
            2, id, "analysis", call, analysis, fault),
        3, id, "metadata", call,
        dataset_metadata(id, doc_ids, samples, analysis), fault)

\* what create_dataset returns once the writes (w) are through
create_result(w, dataset_id, samples) ==
    [tree |-> w.tree, raised |-> w.raised, success |-> ~w.raised,
     message |-> IF w.raised THEN "OSError"
                 ELSE "Dataset created with " \o ToString(Len(samples)) \o " samples",
     dataset_id |-> dataset_id, resolved |-> TRUE]

\* create_dataset from the collected samples on: made is the tree after
\* os.makedirs
store_samples(made, dataset_id, doc_ids, samples, call, fault) ==
    IF no_samples(samples)
    THEN [tree |-> made, raised |-> FALSE, success |-> FALSE,
          message |-> "No valid samples could be created from the documents",
          dataset_id |-> dataset_id, resolved |-> TRUE]
    ELSE create_result(WriteArtifacts(made, dataset_id, call, doc_ids, samples,
                                      analyze_dataset(samples), fault),
                       dataset_id, samples)

\* (success, message, dataset_id), the tree it leaves, and whether it raised
create_dataset(tree, doc_ids, dataset_name, t, call, fault) ==
    IF no_documents(doc_ids)
    THEN [tree |-> tree, raised |-> FALSE, success |-> FALSE,
          message |-> "No documents specified", dataset_id |-> NoId,
          resolved |-> FALSE]
    ELSE store_samples(makedirs(tree, DatasetIdOf(dataset_name, doc_ids, t)),
                       DatasetIdOf(dataset_name, doc_ids, t),
                       doc_ids, CollectSamples(doc_ids), call, fault)

\* found = FALSE is Python's None
get_dataset(tree, dataset_id) ==
    IF ~isfile(tree, dataset_id, "dataset") THEN [found |-> FALSE, data |-> <<>>]
    ELSE [found |-> TRUE, data |-> tree[dataset_id].dataset.data]

get_dataset_metadata(tree, dataset_id) ==
    IF ~isfile(tree, dataset_id, "metadata") THEN [found |-> FALSE, data |-> NoMetadata]
    ELSE [found |-> TRUE, data |-> tree[dataset_id].metadata.data]

\* the analysis.json read of generate_dataset
load_analysis(tree, dataset_id) ==
    IF ~isfile(tree, dataset_id, "analysis")
    THEN [found |-> FALSE, data |-> analyze_dataset(<<>>)]
    ELSE [found |-> TRUE, data |-> tree[dataset_id].analysis.data]

list_datasets(tree) == DOMAIN tree

\* the tree after delete_dataset, and its return value
\* os.path.join(self.base_dir, "") is base_dir itself: with the empty id the
\* check and the rmtree are those of the whole directory of datasets.
delete_dataset(tree, base, dataset_id) ==
    IF dataset_id = BaseDirId
    THEN IF ~base THEN [tree |-> tree, base_dir |-> base, deleted |-> FALSE]
         ELSE [tree |-> <<>>, base_dir |-> FALSE, deleted |-> TRUE]
    ELSE IF ~isdir(tree, dataset_id)
         THEN [tree |-> tree, base_dir |-> base, deleted |-> FALSE]
         ELSE [tree |-> rmtree(tree, dataset_id), base_dir |-> base, deleted |-> TRUE]

(***************************************************************************)
(* DatasetAnalyzer.suggest_improvements: the suggestions, each with the    *)
(* number it cites                                                         *)
(***************************************************************************)
\* suggestions that leave the caller one short of each threshold
suggest_improvements_one_short(analysis) ==
    (IF ~analysis.is_sufficient /\ analysis.stats.sample_count < min_samples
     THEN <<[kind |-> "more_samples",
             amount |-> min_samples - analysis.stats.sample_count - 1]>>
     ELSE <<>>)
    \o
    (IF ~analysis.is_sufficient /\ analysis.stats.total_chars < min_dataset_size
     THEN <<[kind |-> "more_content",
             amount |-> min_dataset_size - analysis.stats.total_chars - 1]>>
     ELSE <<>>)

suggest_improvements(analysis) ==
    LET st == analysis.stats
    IN  (IF ~analysis.is_sufficient /\ st.sample_count < min_samples
         THEN <<[kind |-> "more_samples", amount |-> min_samples - st.sample_count]>>
         ELSE <<>>)
        \o
        (IF ~analysis.is_sufficient /\ st.total_chars < min_dataset_size
         THEN <<[kind |-> "more_content", amount |-> min_dataset_size - st.total_chars]>>
         ELSE <<>>)
        \o
        (IF st.score20 < 80 * 20 /\ st.sample_count < optimal_samples
         THEN <<[kind |-> "optimal_samples", amount |-> optimal_samples]>>
         ELSE <<>>)
        \o
        (IF st.score20 < 80 * 20 /\ st.avg_sample_length.num < 100 * st.avg_sample_length.den
         THEN <<[kind |-> "longer_samples", amount |-> 0]>>
         ELSE <<>>)

(***************************************************************************)
(* DatasetGenerationPipeline.generate_dataset: the dictionary it returns   *)
(* (has_id = FALSE: "dataset_id": None), the tree it leaves, and whether   *)
(* an exception left it instead                                            *)
(***************************************************************************)
\* a result that never carries suggestions
pipeline_result_without_suggestions(c) ==
    LET metadata == get_dataset_metadata(c.tree, c.dataset_id)
        analysis == load_analysis(c.tree, c.dataset_id)
        failed == c.raised \/ ~c.success
    IN  [tree |-> c.tree, raised |-> c.raised, success |-> c.success,
         message |-> c.message,
         has_id |-> ~failed,
         dataset_id |-> IF failed THEN NoId ELSE c.dataset_id,
         resolved |-> c.resolved,
         resolved_id |-> c.dataset_id,
         metadata |-> IF failed THEN [found |-> FALSE, data |-> NoMetadata] ELSE metadata,
         analysis |-> IF failed THEN [found |-> FALSE, data |-> analyze_dataset(<<>>)]
                      ELSE analysis,
         suggestions |-> <<>>]

\* the dictionary built from create_dataset's outcome c
pipeline_result(c) ==
    LET metadata == get_dataset_metadata(c.tree, c.dataset_id)
        analysis == load_analysis(c.tree, c.dataset_id)
        failed == c.raised \/ ~c.success
    IN  [tree |-> c.tree, raised |-> c.raised, success |-> c.success,
         message |-> c.message,
         has_id |-> ~failed,
         dataset_id |-> IF failed THEN NoId ELSE c.dataset_id,
         resolved |-> c.resolved,
         resolved_id |-> c.dataset_id,
         metadata |-> IF failed THEN [found |-> FALSE, data |-> NoMetadata] ELSE metadata,
         analysis |-> IF failed THEN [found |-> FALSE, data |-> analyze_dataset(<<>>)]
                      ELSE analysis,
         suggestions |-> IF ~failed /\ analysis.found /\ ~analysis.data.is_sufficient
                         THEN suggest_improvements(analysis.data) ELSE <<>>]

generate_dataset(tree, doc_ids, dataset_name, t, call, fault) ==
    pipeline_result(create_dataset(tree, doc_ids, dataset_name, t, call, fault))

(***************************************************************************)
(* State                                                                   *)
(***************************************************************************)
VARIABLES
    fs,        \* the dataset directory tree
    now,       \* int(time.time())
    calls,     \* generate_dataset calls made so far (they number the calls)
    last,      \* the operation that ran last and what it returned
    returned,  \* history: the dataset_ids successful generate_dataset calls returned
    gen,       \* concurrent callers of generate_dataset: where each one stands
    rd,        \* a concurrent caller of get_dataset / get_dataset_metadata
    base_dir   \* whether the directory self.base_dir exists

vars == <<fs, now, calls, last, returned, gen, rd, base_dir>>

GhostId == [text |-> "ghost", time |-> 0, digest |-> <<>>]

Idle ==
    [op |-> "none", arg |-> GhostId, docs |-> <<>>, name |-> NoName,
     raised |-> FALSE, success |-> FALSE,
     message |-> "", has_id |-> FALSE, dataset_id |-> NoId, resolved |-> FALSE,
     resolved_id |-> NoId,
     metadata |-> [found |-> FALSE, data |-> NoMetadata],
     analysis |-> [found |-> FALSE, data |-> analyze_dataset(<<>>)],
     suggestions |-> <<>>, samples |-> [found |-> FALSE, data |-> <<>>],
     listing |-> {}, before |-> {}]

\* the arguments callers pass
DocLists ==
    {<<>>, <<"missing">>, <<"short">>, <<"plain", "info">>, <<"info", "plain">>,
     <<"missing", "info">>, <<"info", "info", "info", "info", "info">>}
Names == {NoName, Name(""), Name("alpha")}
Faults == 1..3


\* ids a caller asks about: the directories there are, the id of the last
\* call, and one nobody ever created
ProbeIds == DOMAIN fs \cup {last.arg} \cup {GhostId, BaseDirId}

\* callers running at the same time (threads of the UI, server processes)
Workers == {"w1", "w2"}

IdleWorker ==
    [pc |-> "idle", call |-> 0, doc_ids |-> <<>>, dataset_id |-> NoId,
     samples |-> <<>>, outcome |-> "none"]

IdleReader == [pc |-> "idle", op |-> "none", arg |-> GhostId, outcome |-> "none"]

Init ==
    /\ fs = <<>>
    /\ now = 0
    /\ calls = 0
    /\ last = Idle
    /\ returned = {}
    /\ gen = [w \in Workers |-> IdleWorker]
    /\ rd = IdleReader
    /\ base_dir = TRUE

\* the caller receives r
Returns(r, doc_ids, dataset_name) ==
    /\ fs' = r.tree
    /\ last' = [Idle EXCEPT !.op = "generate_dataset", !.docs = doc_ids,
                            !.name = dataset_name,
                            !.raised = r.raised, !.success = r.success,
                            !.message = r.message, !.has_id = r.has_id,
                            !.dataset_id = r.dataset_id,
                            !.resolved = r.resolved,
                            !.resolved_id = r.resolved_id,
                            !.metadata = r.metadata, !.analysis = r.analysis,
                            !.suggestions = r.suggestions,
                            !.before = list_datasets(fs)]
    /\ returned' = IF r.has_id THEN returned \cup {r.dataset_id} ELSE returned
    \* os.makedirs creates base_dir along with the directory of the dataset
    /\ base_dir' = (base_dir \/ r.resolved)

GenerateDataset(doc_ids, dataset_name, fault) ==
    /\ calls < MaxCalls
    /\ Returns(generate_dataset(fs, doc_ids, dataset_name, now, calls + 1, fault),
               doc_ids, dataset_name)
    /\ calls' = calls + 1
    /\ UNCHANGED <<now, gen, rd>>

GetDataset(id) ==
    /\ last' = [Idle EXCEPT !.op = "get_dataset", !.arg = id,
                            !.samples = get_dataset(fs, id)]
    /\ UNCHANGED <<fs, now, calls, returned, gen, rd, base_dir>>

GetDatasetMetadata(id) ==
    /\ last' = [Idle EXCEPT !.op = "get_dataset_metadata", !.arg = id,
                            !.metadata = get_dataset_metadata(fs, id)]
    /\ UNCHANGED <<fs, now, calls, returned, gen, rd, base_dir>>

ListDatasets ==
    /\ last' = [Idle EXCEPT !.op = "list_datasets", !.listing = list_datasets(fs)]
    /\ UNCHANGED <<fs, now, calls, returned, gen, rd, base_dir>>

DeleteDataset(id) ==
    /\ LET r == delete_dataset(fs, base_dir, id)
       IN  /\ fs' = r.tree
           /\ base_dir' = r.base_dir
           /\ last' = [Idle EXCEPT !.op = "delete_dataset", !.arg = id,
                                   !.success = r.deleted, !.before = list_datasets(fs)]
    /\ UNCHANGED <<now, calls, returned, gen, rd>>

\* the wall clock moves on
Tick ==
    /\ now < MaxTime
    /\ now' = now + 1
    /\ UNCHANGED <<fs, calls, last, returned, gen, rd, base_dir>>

Next ==
    \/ \E doc_ids \in DocLists, dataset_name \in Names :
           GenerateDataset(doc_ids, dataset_name, 0)
    \/ \E id \in ProbeIds : GetDataset(id)
    \/ \E id \in ProbeIds : GetDatasetMetadata(id)
    \/ ListDatasets
    \/ \E id \in ProbeIds : DeleteDataset(id)
    \/ Tick

Spec == Init /\ [][Next]_vars

\* the same program on a disk whose writes can fail
NextFault ==
    \/ Next
    \/ \E doc_ids \in DocLists, dataset_name \in Names, fault \in Faults :
           GenerateDataset(doc_ids, dataset_name, fault)

SpecFault == Init /\ [][NextFault]_vars

(***************************************************************************)
(* FineTuningManager, as far as it reads the dataset directory             *)
(***************************************************************************)
\* (success, message, number of formatted samples)
prepare_dataset_for_training(tree, dataset_id) ==
    IF ~get_dataset(tree, dataset_id).found \/ get_dataset(tree, dataset_id).data = <<>>
    THEN [success |-> FALSE, message |-> "Dataset with ID <dataset_id> not found",
          samples |-> 0]
    ELSE IF /\ get_dataset_metadata(tree, dataset_id).found
            /\ ~get_dataset_metadata(tree, dataset_id).data.is_sufficient
    THEN [success |-> FALSE, message |-> "Dataset is not sufficient for fine-tuning",
          samples |-> 0]
    ELSE [success |-> TRUE, message |-> "Dataset prepared",
          samples |-> Len(get_dataset(tree, dataset_id).data)]

\* fine_tune up to the point where training is set up: success = FALSE is
\* the failure result returned before any training, success = TRUE means the
\* call went on to load the model and train on the prepared samples
FineTune(id) ==
    /\ last' = [Idle EXCEPT !.op = "fine_tune", !.arg = id,
                            !.success = prepare_dataset_for_training(fs, id).success,
                            !.message = prepare_dataset_for_training(fs, id).message]
    /\ UNCHANGED <<fs, now, calls, returned, gen, rd, base_dir>>

\* the dataset operations on a disk whose writes can fail, and fine_tune
NextTrain ==
    \/ NextFault
    \/ \E id \in ProbeIds : FineTune(id)

SpecTrain == Init /\ [][NextTrain]_vars

(***************************************************************************)
(* One generate_dataset call on an empty base_dir, over every list of at   *)
(* most MaxDocs document ids                                               *)
(***************************************************************************)
BatchLists == UNION {[1..n -> DocIds] : n \in 0..MaxDocs}

InitBatch ==
    /\ fs = <<>>
    /\ now = 0
    /\ calls = 0
    /\ last \in {[Idle EXCEPT !.docs = doc_ids] : doc_ids \in BatchLists}
    /\ returned = {}
    /\ gen = [w \in Workers |-> IdleWorker]
    /\ rd = IdleReader
    /\ base_dir = TRUE

GenerateBatch ==
    /\ last.op = "none"
    /\ GenerateDataset(last.docs, NoName, 0)

SpecBatch == InitBatch /\ [][GenerateBatch]_vars

(***************************************************************************)
(* One pass of the loop of create_dataset over the text of a document that *)
(* is one paragraph of one sentence, from a little under 100 characters to *)
(* MaxParagraphLen                                                         *)
(***************************************************************************)
ParagraphTexts ==
    {<<Prose(n, cue, words, 8)>> :
        n \in (MinParagraphLen - 5)..MaxParagraphLen, cue \in BOOLEAN, words \in {2, 12}}

InitSamples ==
    /\ fs = <<>>
    /\ now = 0
    /\ calls = 0
    /\ last \in {[op |-> "input", text |-> text, samples |-> <<>>] : text \in ParagraphTexts}
    /\ returned = {}
    /\ gen = [w \in Workers |-> IdleWorker]
    /\ rd = IdleReader
    /\ base_dir = TRUE

CreateSamples ==
    /\ last.op = "input"
    /\ last' = [last EXCEPT
                   !.op = "create_samples_from_text",
                   !.samples = create_samples_from_text(
                                   filter_content(last.text),
                                   [found |-> TRUE, filename_len |-> DefaultFilenameLen])]
    /\ UNCHANGED <<fs, now, calls, returned, gen, rd, base_dir>>

SpecSamples == InitSamples /\ [][CreateSamples]_vars

(***************************************************************************)
(* _create_samples_from_text alone, over every text of at most MaxTokens   *)
(* tokens: paragraph breaks and sentences around the 100 and 200 character *)
(* thresholds, with and without a cue, with a long or a two-word first     *)
(* sentence                                                                *)
(***************************************************************************)
SynthTokens ==
    {Break,
     Prose(60, FALSE, 5, 8),
     Prose(99, FALSE, 9, 8),
     Prose(100, FALSE, 9, 8),
     Prose(200, TRUE, 12, 8),
     Prose(201, TRUE, 12, 8),
     Prose(201, TRUE, 2, 3),
     Prose(201, FALSE, 12, 8)}

SynthTexts == UNION {[1..n -> SynthTokens] : n \in 0..MaxTokens}

InitSynth ==
    /\ fs = <<>>
    /\ now = 0
    /\ calls = 0
    /\ last \in {[op |-> "input", text |-> text, samples |-> <<>>] : text \in SynthTexts}
    /\ returned = {}
    /\ gen = [w \in Workers |-> IdleWorker]
    /\ rd = IdleReader
    /\ base_dir = TRUE

CreateSamplesFromText ==
    /\ last.op = "input"
    /\ last' = [last EXCEPT
                   !.op = "create_samples_from_text",
                   !.samples = create_samples_from_text(
                                   last.text,
                                   [found |-> TRUE, filename_len |-> DefaultFilenameLen])]
    /\ UNCHANGED <<fs, now, calls, returned, gen, rd, base_dir>>

SpecSynth == InitSynth /\ [][CreateSamplesFromText]_vars

(***************************************************************************)
(* filter_content over every text of at most MaxSentences sentences and    *)
(* paragraph breaks, and over its own output                               *)
(***************************************************************************)
PageOfSentence == [Prose(12, FALSE, 4, 4) EXCEPT !.shape = "page"]            \* "Page 3 of 10"
CopyrightSentence == [Prose(16, FALSE, 3, 6) EXCEPT !.shape = "copyright"]    \* "Copyright (c) 2024"
NumberSentence == [Prose(2, FALSE, 1, 0) EXCEPT !.shape = "digits"]           \* "42"

FilterTokens ==
    {Break,
     Prose(min_sentence_length - 1, FALSE, 2, 0),
     Prose(50, TRUE, 8, 6),
     [Prose(40, FALSE, 7, 5) EXCEPT !.starter = FALSE],
     Prose(max_sentence_length + 200, TRUE, 180, 9),
     [Prose(max_sentence_length + 1, FALSE, 1, 0) EXCEPT !.shape = "digits"],
     [Prose(max_sentence_length + 50, FALSE, 150, 9) EXCEPT !.shape = "confidential"],
     PageOfSentence, CopyrightSentence, NumberSentence}

FilterTexts == UNION {[1..n -> FilterTokens] : n \in 0..MaxSentences}

InitFilter ==
    /\ fs = <<>>
    /\ now = 0
    /\ calls = 0
    /\ last \in {[op |-> "input", text |-> text, once |-> <<>>, twice |-> <<>>] :
                      text \in FilterTexts}
    /\ returned = {}
    /\ gen = [w \in Workers |-> IdleWorker]
    /\ rd = IdleReader
    /\ base_dir = TRUE

FilterContent ==
    /\ last.op = "input"
    /\ last' = [last EXCEPT !.op = "filter_content",
                            !.once = filter_content(last.text),
                            !.twice = filter_content(filter_content(last.text))]
    /\ UNCHANGED <<fs, now, calls, returned, gen, rd, base_dir>>

SpecFilter == InitFilter /\ [][FilterContent]_vars

(***************************************************************************)
(* analyze_dataset over sample collections of 1 to MaxSamples samples that *)
(* hold 0 to MaxChars characters in all                                    *)
(***************************************************************************)
AnalyzeCounts == {1, 2, 9, 10, 11, 50, 99, 100, MaxSamples}

AnalyzeChars == {0, 1, 500, 999, 1000, 1001, 1400, 1500, 1600, 1999, 2000, MaxChars}

\* n samples, {"input": ..., "output": ...}, whose strings hold c characters
\* in all
SamplesOf(n, c) ==
    [i \in 1..n |->
        [input |-> (c \div n) \div 2,
         output |-> (c \div n) - ((c \div n) \div 2) + (IF i = 1 THEN c % n ELSE 0)]]

InitAnalyze ==
    /\ fs = <<>>
    /\ now = 0
    /\ calls = 0
    /\ last \in {[op |-> "input", count |-> n, chars |-> c,
                   analysis |-> analyze_dataset(<<>>), suggestions |-> <<>>] :
                      n \in AnalyzeCounts, c \in AnalyzeChars}
    /\ returned = {}
    /\ gen = [w \in Workers |-> IdleWorker]
    /\ rd = IdleReader
    /\ base_dir = TRUE

AnalyzeDataset ==
    /\ last.op = "input"
    /\ last' = [last EXCEPT
                   !.op = "analyze_dataset",
                   !.analysis = analyze_dataset(SamplesOf(last.count, last.chars))]
    /\ UNCHANGED <<fs, now, calls, returned, gen, rd, base_dir>>

SuggestImprovements ==
    /\ last.op = "analyze_dataset"
    /\ last' = [last EXCEPT !.op = "suggest_improvements",
                            !.suggestions = suggest_improvements(last.analysis)]
    /\ UNCHANGED <<fs, now, calls, returned, gen, rd, base_dir>>

NextAnalyze == AnalyzeDataset \/ SuggestImprovements

SpecAnalyze == InitAnalyze /\ [][NextAnalyze]_vars


(***************************************************************************)
(* The same operations, statement by statement, for callers that run at    *)
(* the same time.  Each action is one file-system access of the code (a    *)
(* check, a directory creation, one file written or read); delete_dataset  *)
(* stays one step.                                                         *)
(***************************************************************************)
\* create_dataset up to os.makedirs
CallGenerate(w, doc_ids, dataset_name) ==
    /\ gen[w].pc = "idle"
    /\ calls < MaxCalls
    /\ calls' = calls + 1
    /\ IF no_documents(doc_ids)
       THEN /\ gen' = [gen EXCEPT ![w] = [IdleWorker EXCEPT !.call = calls + 1,
                                                           !.outcome = "no_documents"]]
            /\ fs' = fs
            /\ base_dir' = base_dir
       ELSE /\ gen' = [gen EXCEPT ![w] =
                          [pc |-> "collect", call |-> calls + 1, doc_ids |-> doc_ids,
                           dataset_id |-> DatasetIdOf(dataset_name, doc_ids, now),
                           samples |-> <<>>, outcome |-> "none"]]
            /\ fs' = makedirs(fs, DatasetIdOf(dataset_name, doc_ids, now))
            /\ base_dir' = TRUE
    /\ UNCHANGED <<now, last, returned, rd>>

\* the loop over the documents, the empty check and the analysis
Collect(w) ==
    /\ gen[w].pc = "collect"
    /\ LET samples == CollectSamples(gen[w].doc_ids)
       IN  gen' = [gen EXCEPT ![w] =
                      IF no_samples(samples)
                      THEN [IdleWorker EXCEPT !.call = gen[w].call,
                                              !.outcome = "no_valid_samples"]
                      ELSE [@ EXCEPT !.pc = "write_dataset", !.samples = samples]]
    /\ UNCHANGED <<fs, now, calls, last, returned, rd, base_dir>>

\* one of the three open(path, 'w') / json.dump: it raises when the
\* directory is no longer there
WriteStep(w, pc, slot, data, next) ==
    /\ gen[w].pc = pc
    /\ IF isdir(fs, gen[w].dataset_id)
       THEN /\ fs' = write_file(fs, gen[w].dataset_id, slot, gen[w].call, data)
            /\ gen' = [gen EXCEPT ![w].pc = next]
       ELSE /\ fs' = fs
            /\ gen' = [gen EXCEPT ![w] = [IdleWorker EXCEPT !.call = gen[w].call,
                                                           !.outcome = "raised"]]
    /\ UNCHANGED <<now, calls, last, returned, rd, base_dir>>

WriteDataset(w) ==
    WriteStep(w, "write_dataset", "dataset", gen[w].samples, "write_analysis")

WriteAnalysis(w) ==
    WriteStep(w, "write_analysis", "analysis", analyze_dataset(gen[w].samples),
              "write_metadata")

WriteMetadata(w) ==
    WriteStep(w, "write_metadata", "metadata",
              dataset_metadata(gen[w].dataset_id, gen[w].doc_ids, gen[w].samples,
                               analyze_dataset(gen[w].samples)),
              "report")

\* create_dataset has returned success: generate_dataset reads the metadata
\* and the analysis back and returns
Report(w) ==
    /\ gen[w].pc = "report"
    /\ gen' = [gen EXCEPT ![w] = [IdleWorker EXCEPT !.call = gen[w].call,
                                                   !.dataset_id = gen[w].dataset_id,
                                                   !.outcome = "success"]]
    /\ returned' = returned \cup {gen[w].dataset_id}
    /\ UNCHANGED <<fs, now, calls, last, rd, base_dir>>

\* slot of the file each read operation opens
SlotOf(op) == IF op = "get_dataset" THEN "dataset" ELSE "metadata"

\* get_dataset / get_dataset_metadata up to the os.path.isfile check
CheckFile(op, id) ==
    /\ rd.pc = "idle"
    /\ rd' = IF isfile(fs, id, SlotOf(op))
             THEN [pc |-> "open", op |-> op, arg |-> id, outcome |-> "none"]
             ELSE [pc |-> "idle", op |-> op, arg |-> id, outcome |-> "not_found"]
    /\ UNCHANGED <<fs, now, calls, last, returned, gen, base_dir>>

\* open(path, 'r') and json.load: FileNotFoundError when the file is gone
OpenFile ==
    /\ rd.pc = "open"
    /\ rd' = [rd EXCEPT !.pc = "idle",
                        !.outcome = IF isfile(fs, rd.arg, SlotOf(rd.op))
                                    THEN "content" ELSE "error"]
    /\ UNCHANGED <<fs, now, calls, last, returned, gen, base_dir>>

ConcurrentDelete(id) ==
    /\ fs' = delete_dataset(fs, base_dir, id).tree
    /\ fs' # fs
    /\ base_dir' = delete_dataset(fs, base_dir, id).base_dir
    /\ UNCHANGED <<now, calls, last, returned, gen, rd>>

ConcurrentTick ==
    /\ now < MaxTime
    /\ now' = now + 1
    /\ UNCHANGED <<fs, calls, last, returned, gen, rd, base_dir>>

NextConc ==
    \/ \E w \in Workers, doc_ids \in DocLists, dataset_name \in Names :
           CallGenerate(w, doc_ids, dataset_name)
    \/ \E w \in Workers : Collect(w)
    \/ \E w \in Workers : WriteDataset(w)
    \/ \E w \in Workers : WriteAnalysis(w)
    \/ \E w \in Workers : WriteMetadata(w)
    \/ \E w \in Workers : Report(w)
    \/ \E op \in {"get_dataset", "get_dataset_metadata"}, id \in DOMAIN fs \cup {GhostId} :
           CheckFile(op, id)
    \/ OpenFile
    \/ \E id \in DOMAIN fs : ConcurrentDelete(id)
    \/ ConcurrentTick

SpecConc == Init /\ [][NextConc]_vars

(***************************************************************************)
(* Properties                                                              *)
(***************************************************************************)
NoValidSamplesMessage == "No valid samples could be created from the documents"

\* the step just taken was a generate_dataset call
GenerateStep == calls' # calls

NotFound(tree, id) ==
    ~get_dataset(tree, id).found /\ ~get_dataset_metadata(tree, id).found

Complete(tree, id) ==
    isfile(tree, id, "dataset") /\ isfile(tree, id, "analysis") /\ isfile(tree, id, "metadata")

\* what is stored under an id, whoever wrote it
Artifacts(tree, id) ==
    [samples |-> tree[id].dataset.data, report |-> tree[id].analysis.data,
     metadata |-> tree[id].metadata.data]

\* C1: generate_dataset([]) returns success = false with the message "No
\* documents specified" and persists nothing: no directory is created, so
\* list_datasets() returns the ids it returned before the call.
C1_EmptyListRejected ==
    (last.op = "generate_dataset" /\ last.docs = <<>>) =>
        /\ ~last.raised
        /\ ~last.success
        /\ ~last.has_id
        /\ last.message = "No documents specified"
        /\ list_datasets(fs) = last.before

C1_Witness ==
    /\ last.op = "generate_dataset"
    /\ last.docs = <<>>
    /\ ~last.success
    /\ list_datasets(fs) # {}

\* C2 (as claimed): a generate_dataset call whose sample collection is empty
\* fails with the no-valid-samples result and persists nothing: list_datasets()
\* is as before the call, and get_dataset / get_dataset_metadata of the id the
\* call computed return not-found.
C2_NoValidSamplesPersistsNothing ==
    (last.op = "generate_dataset" /\ last.message = NoValidSamplesMessage) =>
        /\ ~last.success
        /\ list_datasets(fs) = last.before
        /\ NotFound(fs, last.resolved_id)

\* C3: a generate_dataset call on a non-empty document-id list that yields at
\* least one sample succeeds, and get_dataset of the returned dataset_id is a
\* list whose length is the sample_count of the returned metadata.
C3_SampleCountMatches ==
    (/\ last.op = "generate_dataset"
     /\ last.docs # <<>>
     /\ CollectSamples(last.docs) # <<>>) =>
        /\ last.success
        /\ last.has_id
        /\ last.metadata.found
        /\ get_dataset(fs, last.dataset_id).found
        /\ Len(get_dataset(fs, last.dataset_id).data) = last.metadata.data.sample_count

C3_Witness ==
    /\ last.op = "generate_dataset"
    /\ last.success
    /\ Len(last.docs) = 2
    /\ last.metadata.data.sample_count = 3
    /\ Len(get_dataset(fs, last.dataset_id).data) = 3

\* C4: an id for which get_dataset and get_dataset_metadata return not-found,
\* or which delete_dataset has just been called on, is not-found after every
\* step that is not a generate_dataset call resolving to that id.  With the
\* empty initial tree: an id never created, or deleted, stays not-found until
\* a later generate_dataset creates it again.
C4_DeletedStaysNotFound ==
    [][\A id \in DOMAIN fs \cup DOMAIN fs' \cup {GhostId, last'.arg} :
          (/\ \/ NotFound(fs, id)
              \/ last'.op = "delete_dataset" /\ last'.arg = id
           /\ ~(GenerateStep /\ last'.resolved /\ last'.resolved_id = id))
          => NotFound(fs', id)]_vars

C4_Witness ==
    /\ last.op = "delete_dataset"
    /\ last.success
    /\ last.arg \in returned
    /\ NotFound(fs, last.arg)

\* C5: every id a successful generate_dataset returned, while it is stored,
\* has a non-empty sample collection: get_dataset never returns an empty list
\* for it.
C5_StoredSamplesNonEmpty ==
    \A id \in returned :
        get_dataset(fs, id).found => Len(get_dataset(fs, id).data) > 0

C5_Witness ==
    \E id \in returned :
        get_dataset(fs, id).found /\ Len(get_dataset(fs, id).data) > 0

\* C6 (as claimed): between operations, every id list_datasets() returns has
\* all three artifacts (samples, report, metadata).
C6_ListedDatasetsComplete ==
    \A id \in list_datasets(fs) : Complete(fs, id)

\* C7 (as claimed): the samples, report and metadata of a successfully created
\* dataset are the same after every step that is not a delete_dataset of its
\* id.
C7_CreatedDatasetImmutable ==
    [][\A id \in returned \cap DOMAIN fs :
          (Complete(fs, id) /\ ~(last'.op = "delete_dataset" /\ last'.arg = id))
          => (id \in DOMAIN fs' /\ Artifacts(fs', id) = Artifacts(fs, id))]_vars

\* C8 (as claimed): a successful generate_dataset call returns a dataset_id
\* that no earlier successful call returned.
C8_DatasetIdUnique ==
    [][(GenerateStep /\ last'.has_id) => last'.dataset_id \notin returned]_vars

Slots == {"dataset", "analysis", "metadata"}

Quiescent == \A w \in Workers : gen[w].pc = "idle"

\* C9 (as claimed): whatever generate_dataset calls ran at the same time,
\* once they have all ended the artifacts stored under an id come from one
\* single call.
C9_ArtifactsFromOneCall ==
    Quiescent =>
        \A id \in DOMAIN fs : \A s1 \in Slots, s2 \in Slots :
            (fs[id][s1].present /\ fs[id][s2].present) => fs[id][s1].by = fs[id][s2].by

\* C10 (as claimed): a get_dataset or get_dataset_metadata call that runs
\* while the same id is deleted ends with the stored content or with
\* not-found, never with an error.
C10_ReadNeverRaises == rd.outcome # "error"

\* C11 (as claimed): no public operation ends by raising into its caller; in
\* particular a generate_dataset call during which one of the three artifact
\* writes fails returns a result (success = false and a message) instead.
C11_NoOperationRaises == ~last.raised

\* the documents of a list that extract_from_document succeeds on
Extracted(doc_ids) ==
    SelectSeq(doc_ids, LAMBDA d : extract_from_document(d).success)

\* the samples a generate_dataset call over doc_ids stores, on an empty
\* base_dir
Produced(doc_ids) ==
    get_dataset(generate_dataset(<<>>, doc_ids, NoName, 0, 1, 0).tree,
                DatasetIdOf(NoName, doc_ids, 0)).data

\* C12: a generate_dataset call over a list that holds documents whose
\* extraction fails (not found, unsupported format, empty content, parser
\* error) does not raise, and the samples it stores are exactly the samples,
\* in the same order, of a call over the list without those documents.
C12_FailingDocumentsSkipped ==
    last.op = "generate_dataset" =>
        /\ ~last.raised
        /\ get_dataset(fs, last.resolved_id).data = Produced(Extracted(last.docs))

C12_Witness ==
    /\ last.op = "generate_dataset"
    /\ last.docs = <<"plain", "corrupt", "info">>
    /\ last.success
    /\ Len(get_dataset(fs, last.dataset_id).data) = 3

\* C13 (as claimed): a generate_dataset call over a list of which at least
\* one document is extracted successfully does not end with the
\* no-valid-samples result.
C13_NoValidSamplesOnlyWhenAllFail ==
    (/\ last.op = "generate_dataset"
     /\ \E i \in 1..Len(last.docs) : extract_from_document(last.docs[i]).success)
    => last.message # NoValidSamplesMessage

PlainText(doc_id) == DocumentStore[doc_id].ext \in {".txt", ".md"}

RECURSIVE FilteredChars(_)
FilteredChars(doc_ids) ==
    IF doc_ids = <<>> THEN 0
    ELSE JoinedLen(filter_content(extract_from_document(Head(doc_ids)).text))
         + FilteredChars(Tail(doc_ids))

\* C14 (as claimed): a generate_dataset call over three plain-text documents
\* whose filtered texts total under 1000 characters, and that creates a
\* dataset, returns an analysis with is_sufficient = false and the message
\* that cites the minimum of 1000 characters.
C14_SmallCorpusCitesCharacters ==
    (/\ last.op = "generate_dataset"
     /\ Len(last.docs) = 3
     /\ \A i \in 1..3 : PlainText(last.docs[i])
     /\ FilteredChars(last.docs) < min_dataset_size
     /\ last.success)
    => /\ last.analysis.found
       /\ ~last.analysis.data.is_sufficient
       /\ last.analysis.data.message
              = "Insufficient content (minimum 1000 characters required)"

Kinds(samples) == [i \in 1..Len(samples) |-> samples[i].kind]

\* C15 (as claimed): a document that is one paragraph of at least 200
\* characters with an informative cue phrase yields exactly two samples, a
\* summary and a knowledge sample; one paragraph of 100 to 200 characters
\* without a cue yields exactly one sample, the summary.
C15_SampleCountByParagraph ==
    last.op = "create_samples_from_text" =>
        /\ (JoinedLen(last.text) >= 200 /\ is_informative(last.text))
               => Kinds(last.samples) = <<"summary", "knowledge">>
        /\ (/\ JoinedLen(last.text) >= 100
            /\ JoinedLen(last.text) <= 200
            /\ ~is_informative(last.text))
               => Kinds(last.samples) = <<"summary">>

\* 20 * sufficiency_score of a collection of n samples holding c characters
Score20(n, c) == analyze_dataset(SamplesOf(n, c)).stats.score20

\* C16: sufficiency_score does not decrease when sample_count grows with
\* total_chars fixed, nor when total_chars grows with sample_count fixed
\* (the empty collection, with no sample and no character, included).
C16_ScoreMonotone ==
    last.op = "analyze_dataset" =>
        /\ \A n \in AnalyzeCounts :
               n >= last.count => Score20(n, last.chars) >= last.analysis.stats.score20
        /\ \A c \in AnalyzeChars :
               c >= last.chars => Score20(last.count, c) >= last.analysis.stats.score20
        /\ analyze_dataset(<<>>).stats.score20 <= last.analysis.stats.score20

C16_Witness ==
    /\ last.op = "analyze_dataset"
    /\ last.count = MaxSamples
    /\ last.chars = MaxChars
    /\ last.analysis.stats.score20 = 150 * 20

\* C19: for a non-empty collection is_sufficient is true exactly when
\* total_chars >= 1000 and sample_count >= 10, total_chars being the sum of
\* len(input) + len(output) over the samples.
C19_SufficientIffBothMinima ==
    last.op = "analyze_dataset" =>
        /\ last.analysis.stats.sample_count = last.count
        /\ last.analysis.stats.total_chars = last.chars
        /\ last.analysis.is_sufficient = (last.chars >= 1000 /\ last.count >= 10)

C19_Witness ==
    /\ last.op = "analyze_dataset"
    /\ last.count = 10
    /\ last.chars = 1000
    /\ last.analysis.is_sufficient

\* C20: the message of analyze_dataset for a non-empty collection: good
\* quality when sufficient with a score of at least 80, minimally sufficient
\* when sufficient with a lower score, the sample-count message when
\* insufficient with fewer than 10 samples (whatever total_chars is), the
\* character-count message when insufficient otherwise.
C20_MessageByCase ==
    last.op = "analyze_dataset" =>
        LET a == last.analysis
        IN  a.message =
               IF a.is_sufficient /\ a.stats.score20 >= 80 * 20
               THEN "Dataset is sufficient and of good quality"
               ELSE IF a.is_sufficient
               THEN "Dataset is minimally sufficient but could be improved"
               ELSE IF last.count < 10
               THEN "Insufficient samples (minimum 10 required)"
               ELSE "Insufficient content (minimum 1000 characters required)"

C20_Witness ==
    /\ last.op = "analyze_dataset"
    /\ last.count = 9
    /\ last.chars = 999
    /\ last.analysis.message = "Insufficient samples (minimum 10 required)"

\* C17 (as claimed): filtering the output of filter_content again gives the
\* same text, also when the first pass truncated a sentence of more than
\* 1000 characters and appended the ellipsis.
C17_FilterIdempotent == last.op = "filter_content" => last.twice = last.once

\* C18: no sentence equal to "Page 3 of 10", "Copyright (c) 2024" or "42" is
\* among the sentences filter_content keeps, whatever the other sentences of
\* the text are.
C18_NoiseAlwaysRemoved ==
    last.op = "filter_content" =>
        \A i \in 1..Len(last.once) :
            last.once[i] \notin {PageOfSentence, CopyrightSentence, NumberSentence}

C18_Witness ==
    /\ last.op = "filter_content"
    /\ last.text = <<Prose(50, TRUE, 8, 6), CopyrightSentence>>
    /\ last.once = <<Prose(50, TRUE, 8, 6)>>

\* the amounts the suggestions of one kind cite
Amounts(suggestions, kind) ==
    {suggestions[i].amount : i \in {j \in 1..Len(suggestions) : suggestions[j].kind = kind}}

\* C21: for an insufficient report suggest_improvements asks for more
\* samples exactly when sample_count < 10, and then for 10 - sample_count of
\* them; it asks for more content exactly when total_chars < 1000, and then
\* for 1000 - total_chars characters.
C21_SuggestionsNameTheShortfall ==
    (last.op = "suggest_improvements" /\ ~last.analysis.is_sufficient) =>
        /\ Amounts(last.suggestions, "more_samples")
              = IF last.count < 10 THEN {10 - last.count} ELSE {}
        /\ Amounts(last.suggestions, "more_content")
              = IF last.chars < 1000 THEN {1000 - last.chars} ELSE {}

C21_Witness ==
    /\ last.op = "suggest_improvements"
    /\ last.count = 9
    /\ last.chars = 999
    /\ Amounts(last.suggestions, "more_samples") = {1}
    /\ Amounts(last.suggestions, "more_content") = {1}

C22_SuggestionsIffInsufficient ==
    (last.op = "generate_dataset" /\ last.success) =>
        /\ last.analysis.found
        /\ (last.suggestions # <<>>) = ~last.analysis.data.is_sufficient

C22_Witness ==
    /\ last.op = "generate_dataset"
    /\ last.success
    /\ ~last.analysis.data.is_sufficient
    /\ Len(last.suggestions) >= 2

\* C23 (as claimed): the dataset_id a generate_dataset call works under is
\* the given name, verbatim; without a name it is ds_<unixtime>_<digest>,
\* the digest being that of the sorted document ids.
C23_DatasetIdFormat ==
    (last.op = "generate_dataset" /\ last.resolved) =>
        IF last.name.given
        THEN last.resolved_id = [text |-> last.name.text, time |-> 0, digest |-> <<>>]
        ELSE last.resolved_id
                = [text |-> "ds", time |-> now, digest |-> sorted_ids(last.docs)]

\* the paragraphs of a text that are at least 100 characters long
LongParagraphs(ps) ==
    {i \in 1..Len(ps) : ps[i] # <<>> /\ JoinedLen(ps[i]) >= 100}

\* those longer than 200 characters, informative, with a first sentence of
\* at least 3 words
KnowledgeParagraphs(ps) ==
    {i \in LongParagraphs(ps) :
        /\ JoinedLen(ps[i]) > 200
        /\ \E k \in 1..Len(ps[i]) : ps[i][k].cue
        /\ sent_tokenize(ps[i])[1].words >= 3}

CountKind(samples, kind) ==
    Cardinality({i \in 1..Len(samples) : samples[i].kind = kind})

\* C25: the synthesizer emits one summary sample per paragraph of at least
\* 100 characters, one knowledge sample per such paragraph that is longer
\* than 200 characters, informative and opens with a sentence of at least 3
\* words, and nothing else.
C25_SamplesPerParagraph ==
    last.op = "create_samples_from_text" =>
        /\ CountKind(last.samples, "summary")
               = Cardinality(LongParagraphs(SplitParagraphs(last.text, <<>>)))
        /\ CountKind(last.samples, "knowledge")
               = Cardinality(KnowledgeParagraphs(SplitParagraphs(last.text, <<>>)))
        /\ Len(last.samples)
               = CountKind(last.samples, "summary") + CountKind(last.samples, "knowledge")

\* two paragraphs, the first with a summary only, the second with both
C25_Witness ==
    /\ last.op = "create_samples_from_text"
    /\ Len(SplitParagraphs(last.text, <<>>)) = 2
    /\ Kinds(last.samples) = <<"summary", "summary", "knowledge">>

PolicyKeeps(sentences) ==
    {i \in 1..Len(sentences) :
        /\ sentences[i].len >= 10
        /\ IF sentences[i].len > 1000
           THEN sentences[i].shape \notin StartAnchored
           ELSE ~is_noise(sentences[i])}

\* C27: filter_content drops a sentence shorter than 10, cuts one longer
\* than 1000 to its first 1000 characters and the ellipsis, and applies the
\* noise test to the result: every kept sentence has length 10..1003 and
\* matches no noise pattern, and the kept sentences are those the policy
\* keeps, the long ones at length 1003.
C27_FilterPolicyOrder ==
    last.op = "filter_content" =>
        /\ \A i \in 1..Len(last.once) :
              /\ last.once[i].len >= 10
              /\ last.once[i].len <= 1003
              /\ ~is_noise(last.once[i])
        /\ Len(last.once)
              = Cardinality(PolicyKeeps(sent_tokenize(normalize_whitespace(last.text))))
        /\ Cardinality({i \in 1..Len(last.once) : last.once[i].len = 1003})
              = Cardinality({i \in PolicyKeeps(sent_tokenize(normalize_whitespace(last.text))) :
                                sent_tokenize(normalize_whitespace(last.text))[i].len > 1000})

\* 1001 digits are not a page number any more once cut and marked
C27_Witness ==
    /\ last.op = "filter_content"
    /\ Len(last.text) = 2
    /\ last.text[1].shape = "digits" /\ last.text[1].len = 1001
    /\ last.text[2].shape = "confidential"
    /\ Len(last.once) = 1
    /\ last.once[1].len = 1003

\* C28 (as claimed): after any sequence of generate_dataset and
\* delete_dataset calls that do not overlap, the three artifacts of every
\* stored dataset agree: metadata.sample_count is the number of stored
\* samples and the report's sample_count, and metadata's is_sufficient and
\* sufficiency_score are the report's.
C28_ArtifactsConsistent ==
    \A id \in DOMAIN fs :
        (fs[id].dataset.present /\ fs[id].analysis.present /\ fs[id].metadata.present) =>
            /\ fs[id].metadata.data.sample_count = Len(fs[id].dataset.data)
            /\ fs[id].metadata.data.sample_count = fs[id].analysis.data.stats.sample_count
            /\ fs[id].metadata.data.is_sufficient = fs[id].analysis.data.is_sufficient
            /\ fs[id].metadata.data.score20 = fs[id].analysis.data.stats.score20

\* C29 (as claimed): delete_dataset(id) returns true exactly when a
\* directory of a dataset id existed before the call, removes that dataset
\* only and leaves every other stored dataset and list_datasets() as they
\* were, whatever string the caller passes; deleting the same id again
\* returns false and changes nothing.
C29_DeleteRemovesOnlyItsDataset ==
    [][(last' # last /\ last'.op = "delete_dataset") =>
          /\ last'.success = (last'.arg \in list_datasets(fs))
          /\ list_datasets(fs') = list_datasets(fs) \ {last'.arg}
          /\ \A d \in list_datasets(fs) \ {last'.arg} : fs'[d] = fs[d]
          /\ (last.op = "delete_dataset" /\ last.arg = last'.arg) =>
                (~last'.success /\ fs' = fs)]_vars

\* C30 (as claimed): fine_tune goes on to training only for a dataset whose
\* samples are stored and whose sufficiency report says is_sufficient; in
\* every reachable state of the dataset directory an absent or insufficient
\* dataset gets the failure result.
C30_TrainsOnlyOnSufficientDataset ==
    (last.op = "fine_tune" /\ last.success) =>
        /\ isfile(fs, last.arg, "dataset")
        /\ isfile(fs, last.arg, "analysis")
        /\ fs[last.arg].analysis.data.is_sufficient

====
